---- MODULE Spec2Model ----
(***************************************************************************)
(* The ClouDNS libdns provider (provider.go): GetRecords, AppendRecords,   *)
(* SetRecords and DeleteRecords on top of the remote record client.        *)
(* Every remote call is one step of the calling operation; the remote      *)
(* zone is the shared state the calls act on.                              *)
(***************************************************************************)
EXTENDS Integers, Sequences, FiniteSets, TLC

VARIABLES
    store,            \* the remote zone: its records, in listing order
    nextId,           \* the number the remote gives the next created record
    active,           \* the callers that run an operation
    pc,               \* per caller: where its operation stands
    op,               \* per caller: the operation it called
    zone,             \* per caller: the zone parameter (after line 35-37 etc.)
    zoneIn,           \* per caller: the zone string the caller passed
    records,          \* per caller: the batch parameter
    idx,              \* per caller: position of the range loop over records
    storeAtCall,      \* per caller: the remote zone when the operation was called
    currentRecord,    \* per caller: AppendRecords' currentRecord (<<>> is nil)
    recordsToDelete,  \* per caller: AppendRecords' recordsToDelete
    delIdx,           \* per caller: position of the nested DeleteRecords loop
    createdRecords,   \* per caller: AppendRecords' accumulator
    updatedRecords,   \* per caller: SetRecords' accumulator
    deletedRecords,   \* per caller: DeleteRecords' accumulator
    result,           \* per caller: the returned records (<<>> is nil)
    err,              \* per caller: the returned error (<<>> is nil, else <<message>>)
    calls             \* per caller: the remote calls its operation issued, in order

vars == <<store, nextId, active, pc, op, zone, zoneIn, records, idx, storeAtCall,
          currentRecord, recordsToDelete, delIdx, createdRecords,
          updatedRecords, deletedRecords, result, err, calls>>

locals == <<currentRecord, recordsToDelete, delIdx, createdRecords,
            updatedRecords, deletedRecords>>

(***************************************************************************)
(* Bounds and input domains                                                *)
(***************************************************************************)
MaxStore == 3
MaxBatch == 2
MaxRaceStore == 1
MaxRaceBatch == 1

Procs == {"c1", "c2", "c3"}

\* the callers that call only once every other caller has returned
Solo == {"c3"}

AcmeName == "_acme-challenge.example.com"
BareName == "_acme-challenge"
InnerName == "www._acme-challenge.example.com"
PlainName == "www"

ZoneName == "example.com"
ZoneInputs == {ZoneName, ZoneName \o "."}

\* zone strings beyond the two forms of a zone name
WideZoneInputs == ZoneInputs \cup {ZoneName \o ".."}

RemoteError == "remote error"

Rec(id, type, name, value, ttl) ==
    [ID |-> id, Type |-> type, Name |-> name, Value |-> value, TTL |-> ttl]

\* what the zone may hold before a call
StoredKinds ==
    { Rec("", "TXT", AcmeName, "old", 300),
      Rec("", "A", AcmeName, "old", 300),
      Rec("", "TXT", BareName, "old", 300) }

\* the records a caller may pass to AppendRecords
AppendCandidates ==
    { Rec("", "TXT", AcmeName, "new", 60),
      Rec("", "TXT", AcmeName, "new2", 60),
      Rec("", "A", AcmeName, "new", 60),
      Rec("", "TXT", BareName, "new", 60),
      Rec("", "TXT", InnerName, "new", 60) }

\* the records a caller may pass to SetRecords
SetCandidates ==
    { Rec("", "TXT", AcmeName, "new", 60),
      Rec("1", "TXT", AcmeName, "new", 60),
      Rec("2", "TXT", PlainName, "new2", 60),
      Rec("", "A", PlainName, "new", 60) }

\* the records a caller may pass to DeleteRecords
DeleteCandidates ==
    { Rec("1", "TXT", AcmeName, "old", 300),
      Rec("2", "TXT", AcmeName, "old", 300),
      Rec("3", "A", PlainName, "old", 300) }

\* the records concurrent callers pass to AppendRecords
RaceCandidates ==
    { Rec("", "TXT", AcmeName, "new", 60),
      Rec("", "TXT", AcmeName, "new2", 60) }

SeqsUpTo(S, n) == UNION { [1..k -> S] : k \in 0..n }

\* identifiers are opaque strings; the remote numbers its records
IdOf(n) == ToString(n)

\* the initial zones: up to MaxStore records, identifiers in listing order
\* or against it (the listing order is not tied to the identifiers)
InitStores ==
    { [i \in 1..Len(s) |-> [s[i] EXCEPT !.ID = IdOf(IF asc THEN i ELSE Len(s) + 1 - i)]] :
        s \in SeqsUpTo(StoredKinds, MaxStore), asc \in BOOLEAN }

\* the zones concurrent calls start from: no record has the (type, name) of
\* a record of RaceCandidates
RaceStores ==
    { s \in InitStores :
        Len(s) <= MaxRaceStore /\ \A i \in 1..Len(s) : s[i].Type = "A" }

\* the zones the calls with the wider zone strings start from
ZoneStores ==
    { s \in InitStores :
        \A i \in 1..Len(s) : s[i].Type = "TXT" /\ s[i].Name = AcmeName }

(***************************************************************************)
(* strings                                                                 *)
(***************************************************************************)
HasPrefix(s, prefix) ==
    Len(s) >= Len(prefix) /\ SubSeq(s, 1, Len(prefix)) = prefix

HasSuffix(s, suffix) ==
    Len(s) >= Len(suffix) /\ SubSeq(s, Len(s) - Len(suffix) + 1, Len(s)) = suffix

TrimSuffix(s, suffix) ==
    IF HasSuffix(s, suffix) THEN SubSeq(s, 1, Len(s) - Len(suffix)) ELSE s

\* a zone string used as it was passed
NormalizeZoneKeep(z) == z

\* lines 23-25, 35-37, 97-99, 123-125
NormalizeZone(z) ==
    IF HasSuffix(z, ".") THEN TrimSuffix(z, ".") ELSE z

Wrap(label, cause) == label \o ": " \o cause

(***************************************************************************)
(* The remote record client (client.go): one zone, records kept in listing *)
(* order; a call on an identifier the zone does not hold fails.            *)
(***************************************************************************)
HasId(st, id) == \E i \in 1..Len(st) : st[i].ID = id

PosOf(st, id) == CHOOSE i \in 1..Len(st) : st[i].ID = id

ClientGetRecords(st) == st

ClientAddRecord(n, type, name, value, ttl) == Rec(IdOf(n), type, name, value, ttl)

ClientUpdateRecord(st, id, name, value, ttl) ==
    [st[PosOf(st, id)] EXCEPT !.Name = name, !.Value = value, !.TTL = ttl]

ClientDeleteRecord(st, id) == st[PosOf(st, id)]

StoreAdd(st, r) == Append(st, r)

StoreUpdate(st, r) == [st EXCEPT ![PosOf(st, r.ID)] = r]

StoreDelete(st, id) == SelectSeq(st, LAMBDA e : e.ID # id)

\* one entry of a caller's call log
Call(o, z, id, type, name, value, ttl, cand, ok, ret) ==
    [op |-> o, zone |-> z, id |-> id, type |-> type, name |-> name,
     value |-> value, ttl |-> ttl, cand |-> cand, ok |-> ok, ret |-> ret]

Log(p, c) == calls' = [calls EXCEPT ![p] = Append(@, c)]

\* the outcomes a remote call on identifier id can have
Outcomes(id) == IF HasId(store, id) THEN BOOLEAN ELSE {FALSE}

(***************************************************************************)
(* Returning                                                               *)
(***************************************************************************)
Return(p, recs, e) ==
    /\ pc' = [pc EXCEPT ![p] = "done"]
    /\ result' = [result EXCEPT ![p] = recs]
    /\ err' = [err EXCEPT ![p] = e]

Fail(p, msg) == Return(p, <<>>, <<msg>>)

\* before any call: the zone is one of stores, the callers are callers
Start(stores, callers) ==
    /\ store \in stores
    /\ nextId = MaxStore + 1
    /\ active = callers
    /\ pc = [p \in Procs |-> "idle"]
    /\ op = [p \in Procs |-> ""]
    /\ zone = [p \in Procs |-> ""]
    /\ zoneIn = [p \in Procs |-> ""]
    /\ records = [p \in Procs |-> <<>>]
    /\ idx = [p \in Procs |-> 0]
    /\ storeAtCall = [p \in Procs |-> <<>>]
    /\ currentRecord = [p \in Procs |-> <<>>]
    /\ recordsToDelete = [p \in Procs |-> <<>>]
    /\ delIdx = [p \in Procs |-> 0]
    /\ createdRecords = [p \in Procs |-> <<>>]
    /\ updatedRecords = [p \in Procs |-> <<>>]
    /\ deletedRecords = [p \in Procs |-> <<>>]
    /\ result = [p \in Procs |-> <<>>]
    /\ err = [p \in Procs |-> <<>>]
    /\ calls = [p \in Procs |-> <<>>]

Init == Start(InitStores, {"c1"})

\* a caller that has not called yet (and, for a caller of Solo, whose call
\* would run alone)
Idle(p) ==
    /\ p \in active
    /\ pc[p] = "idle"
    /\ p \in Solo => \A q \in active \ {p} : pc[q] = "done"

\* an entry that keeps the zone string as it was passed
EnterRaw(p, o, z, recs) ==
    /\ op' = [op EXCEPT ![p] = o]
    /\ zoneIn' = [zoneIn EXCEPT ![p] = z]
    /\ zone' = [zone EXCEPT ![p] = z]
    /\ records' = [records EXCEPT ![p] = recs]
    /\ idx' = [idx EXCEPT ![p] = 1]
    /\ storeAtCall' = [storeAtCall EXCEPT ![p] = store]

\* entering an operation: the parameters, the normalised zone
Enter(p, o, z, recs) ==
    /\ op' = [op EXCEPT ![p] = o]
    /\ zoneIn' = [zoneIn EXCEPT ![p] = z]
    /\ zone' = [zone EXCEPT ![p] = NormalizeZone(z)]
    /\ records' = [records EXCEPT ![p] = recs]
    /\ idx' = [idx EXCEPT ![p] = 1]
    /\ storeAtCall' = [storeAtCall EXCEPT ![p] = store]

(***************************************************************************)
(* GetRecords, lines 22-31                                                 *)
(***************************************************************************)
GetRecordsIn(p, Z) ==
    /\ Idle(p)
    /\ \E z \in Z, ok \in BOOLEAN :
        /\ Enter(p, "Get", z, <<>>)
        /\ Log(p, Call("list", NormalizeZone(z), "", "", "", "", 0, 0, ok,
                       IF ok THEN ClientGetRecords(store) ELSE <<>>))
        /\ IF ok THEN Return(p, ClientGetRecords(store), <<>>)
                 ELSE Fail(p, RemoteError)
        /\ UNCHANGED <<store, nextId, active, locals>>

GetRecords(p) == GetRecordsIn(p, ZoneInputs)

(***************************************************************************)
(* AppendRecords, lines 34-92                                              *)
(***************************************************************************)
\* a prefix test that forgets the label's dot
IsACMENoDot(record) == HasPrefix(record.Name, "_acme-challenge")

\* line 42
IsACME(record) == HasPrefix(record.Name, "_acme-challenge.")

\* a match on the name alone
IsMatchNameOnly(existing, record) == existing.Name = record.Name

\* a match on the type alone
IsMatchTypeOnly(existing, record) == existing.Type = record.Type

\* line 53
IsMatch(existing, record) ==
    existing.Type = record.Type /\ existing.Name = record.Name

Matching(existingRecords, record) ==
    SelectSeq(existingRecords, LAMBDA e : IsMatch(e, record))

\* a scan that keeps the first listed record, matching or not
ScanCurrentAny(existingRecords, record) ==
    IF existingRecords = <<>> THEN <<>> ELSE <<Head(existingRecords)>>

\* lines 51-57: the first match, kept as current (<<>> is nil)
ScanCurrent(existingRecords, record) ==
    IF Matching(existingRecords, record) = <<>>
    THEN <<>>
    ELSE <<Head(Matching(existingRecords, record))>>

\* a scan that marks nothing for deletion
ScanStaleNone(existingRecords, record) == <<>>

\* a scan that spares the last match
ScanStaleButLast(existingRecords, record) ==
    IF Len(Matching(existingRecords, record)) <= 2
    THEN <<>>
    ELSE SubSeq(Matching(existingRecords, record), 2,
                Len(Matching(existingRecords, record)) - 1)

\* lines 50, 58-61: every later match, marked for deletion
ScanStale(existingRecords, record) ==
    IF Matching(existingRecords, record) = <<>>
    THEN <<>>
    ELSE Tail(Matching(existingRecords, record))

\* lines 40-42: where the loop body starts for a record
AppendBranch(record) == IF IsACME(record) THEN "append_list" ELSE "append_add"

\* a body that goes to the update without deleting the stale records
AfterScanNoDelete(cur, stale) ==
    IF cur # <<>> THEN "append_update" ELSE "append_add"

\* lines 66, 74, 84: where the body goes after the scan
AfterScan(cur, stale) ==
    IF Len(stale) > 0 THEN "append_delete"
    ELSE IF cur # <<>> THEN "append_update"
    ELSE "append_add"

\* a result built in reverse order
AppendContinuePrepend(p, r) ==
    /\ createdRecords' = [createdRecords EXCEPT ![p] = <<r>> \o @]
    /\ idx' = [idx EXCEPT ![p] = @ + 1]
    /\ IF idx[p] = Len(records[p])
       THEN Return(p, <<r>> \o createdRecords[p], <<>>)
       ELSE /\ pc' = [pc EXCEPT ![p] = AppendBranch(records[p][idx[p] + 1])]
            /\ UNCHANGED <<result, err>>

\* lines 79-80, 89-91: the record joins the result; next record, or return
AppendContinue(p, r) ==
    /\ createdRecords' = [createdRecords EXCEPT ![p] = Append(@, r)]
    /\ idx' = [idx EXCEPT ![p] = @ + 1]
    /\ IF idx[p] = Len(records[p])
       THEN Return(p, Append(createdRecords[p], r), <<>>)
       ELSE /\ pc' = [pc EXCEPT ![p] = AppendBranch(records[p][idx[p] + 1])]
            /\ UNCHANGED <<result, err>>

\* lines 34-40
AppendRecordsIn(p, Z, B) ==
    /\ Idle(p)
    /\ \E z \in Z, recs \in B :
        /\ Enter(p, "Append", z, recs)
        /\ createdRecords' = [createdRecords EXCEPT ![p] = <<>>]
        /\ IF Len(recs) = 0
           THEN Return(p, <<>>, <<>>)
           ELSE /\ pc' = [pc EXCEPT ![p] = AppendBranch(recs[1])]
                /\ UNCHANGED <<result, err>>
        /\ UNCHANGED <<store, nextId, active, calls, currentRecord,
                       recordsToDelete, delIdx, updatedRecords, deletedRecords>>

AppendRecords(p) == AppendRecordsIn(p, ZoneInputs, SeqsUpTo(AppendCandidates, MaxBatch))

\* a listing error that is dropped, the record then created
ListFailedIgnored(p) ==
    /\ pc' = [pc EXCEPT ![p] = "append_add"]
    /\ UNCHANGED <<result, err>>

\* lines 45-47
ListFailed(p) == Fail(p, Wrap("failed to get existing records", RemoteError))

\* a listing taken once, when AppendRecords was called
ExistingRecordsAtCall(p) == ClientGetRecords(storeAtCall[p])

\* line 44: the listing is taken anew in every round of the loop
ExistingRecords(p) == ClientGetRecords(store)

\* lines 44-63, with Provider.GetRecords (lines 22-31) called at line 44
AppendList(p) ==
    /\ p \in active
    /\ pc[p] = "append_list"
    /\ \E ok \in BOOLEAN :
        LET record == records[p][idx[p]]
            existingRecords == ExistingRecords(p)
            cur == ScanCurrent(existingRecords, record)
            stale == ScanStale(existingRecords, record)
        IN  /\ Log(p, Call("list", NormalizeZone(zone[p]), "", "", "", "", 0,
                           idx[p], ok, IF ok THEN existingRecords ELSE <<>>))
            /\ IF ~ok
               THEN /\ ListFailed(p)
                    /\ UNCHANGED <<currentRecord, recordsToDelete, delIdx,
                                   deletedRecords>>
               ELSE /\ currentRecord' = [currentRecord EXCEPT ![p] = cur]
                    /\ recordsToDelete' = [recordsToDelete EXCEPT ![p] = stale]
                    /\ delIdx' = [delIdx EXCEPT ![p] = 1]
                    /\ deletedRecords' = [deletedRecords EXCEPT ![p] = <<>>]
                    /\ pc' = [pc EXCEPT ![p] = AfterScan(cur, stale)]
                    /\ UNCHANGED <<result, err>>
    /\ UNCHANGED <<store, nextId, active, op, zone, zoneIn, records, idx, storeAtCall,
                   createdRecords, updatedRecords>>

\* a delete keyed by the record's name
DeleteKeyName(record) == record.Name

\* line 128: the identifier the delete call is keyed by
DeleteKey(record) == record.ID

\* a failed stale delete that is passed over, the update then issued
StaleDeleteFailedIgnored(p) ==
    /\ pc' = [pc EXCEPT ![p] = "append_update"]
    /\ UNCHANGED <<result, err>>

\* lines 68-70 around lines 129-131
StaleDeleteFailed(p) ==
    Fail(p, Wrap("failed to delete stale ACME challenge records",
                 Wrap("failed to delete record", RemoteError)))

\* lines 66-71: one round of the loop of Provider.DeleteRecords (lines 122-135)
\* over recordsToDelete
AppendDeleteStale(p) ==
    /\ p \in active
    /\ pc[p] = "append_delete"
    /\ LET id == DeleteKey(recordsToDelete[p][delIdx[p]])
       IN \E ok \in Outcomes(id) :
            /\ Log(p, Call("delete", NormalizeZone(zone[p]), id, "", "", "", 0,
                           idx[p], ok,
                           IF ok THEN <<ClientDeleteRecord(store, id)>> ELSE <<>>))
            /\ IF ~ok
               THEN /\ StaleDeleteFailed(p)
                    /\ UNCHANGED <<store, delIdx, deletedRecords>>
               ELSE /\ store' = StoreDelete(store, id)
                    /\ deletedRecords' = [deletedRecords EXCEPT ![p] =
                                            Append(@, ClientDeleteRecord(store, id))]
                    /\ delIdx' = [delIdx EXCEPT ![p] = @ + 1]
                    /\ pc' = [pc EXCEPT ![p] =
                                IF delIdx[p] = Len(recordsToDelete[p])
                                THEN "append_update" ELSE "append_delete"]
                    /\ UNCHANGED <<result, err>>
    /\ UNCHANGED <<nextId, active, op, zone, zoneIn, records, idx, storeAtCall,
                   currentRecord, recordsToDelete, createdRecords, updatedRecords>>

\* line 75: the arguments of the update of the current record
AcmeUpdateArgs(cur, record) ==
    [id |-> cur.ID, name |-> record.Name, value |-> record.Value, ttl |-> record.TTL]

\* lines 76-78
AcmeUpdateFailed(p) ==
    Fail(p, Wrap("failed to update ACME challenge record", RemoteError))

\* lines 74-81
AppendUpdate(p) ==
    /\ p \in active
    /\ pc[p] = "append_update"
    /\ LET a == AcmeUpdateArgs(currentRecord[p][1], records[p][idx[p]])
       IN \E ok \in Outcomes(a.id) :
            LET r == ClientUpdateRecord(store, a.id, a.name, a.value, a.ttl)
            IN  /\ Log(p, Call("update", zone[p], a.id, "", a.name, a.value, a.ttl,
                               idx[p], ok, IF ok THEN <<r>> ELSE <<>>))
                /\ IF ~ok
                   THEN /\ AcmeUpdateFailed(p)
                        /\ UNCHANGED <<store, createdRecords, idx>>
                   ELSE /\ store' = StoreUpdate(store, r)
                        /\ AppendContinue(p, r)
    /\ UNCHANGED <<nextId, active, op, zone, zoneIn, records, storeAtCall, currentRecord,
                   recordsToDelete, delIdx, updatedRecords, deletedRecords>>

\* lines 86-88, 105-107
AddFailed(p) == Fail(p, Wrap("failed to add record", RemoteError))

\* lines 84-89
AppendAdd(p) ==
    /\ p \in active
    /\ pc[p] = "append_add"
    /\ \E ok \in BOOLEAN :
        LET record == records[p][idx[p]]
            r == ClientAddRecord(nextId, record.Type, record.Name, record.Value,
                                 record.TTL)
        IN  /\ Log(p, Call("create", zone[p], "", record.Type, record.Name,
                           record.Value, record.TTL, idx[p], ok,
                           IF ok THEN <<r>> ELSE <<>>))
            /\ IF ~ok
               THEN /\ AddFailed(p)
                    /\ UNCHANGED <<store, nextId, createdRecords, idx>>
               ELSE /\ store' = StoreAdd(store, r)
                    /\ nextId' = nextId + 1
                    /\ AppendContinue(p, r)
    /\ UNCHANGED <<active, op, zone, zoneIn, records, storeAtCall, currentRecord,
                   recordsToDelete, delIdx, updatedRecords, deletedRecords>>

(***************************************************************************)
(* SetRecords, lines 96-119                                                *)
(***************************************************************************)
\* the identifier test the wrong way round
SetBranchInverted(record) == IF Len(record.ID) # 0 THEN "set_add" ELSE "set_update"

\* line 102
SetBranch(record) == IF Len(record.ID) = 0 THEN "set_add" ELSE "set_update"

\* lines 108, 115, 117-118: the record joins the result; next record, or return
SetContinue(p, r) ==
    /\ updatedRecords' = [updatedRecords EXCEPT ![p] = Append(@, r)]
    /\ idx' = [idx EXCEPT ![p] = @ + 1]
    /\ IF idx[p] = Len(records[p])
       THEN Return(p, Append(updatedRecords[p], r), <<>>)
       ELSE /\ pc' = [pc EXCEPT ![p] = SetBranch(records[p][idx[p] + 1])]
            /\ UNCHANGED <<result, err>>

\* lines 96-101
SetRecordsIn(p, Z, B) ==
    /\ Idle(p)
    /\ \E z \in Z, recs \in B :
        /\ Enter(p, "Set", z, recs)
        /\ updatedRecords' = [updatedRecords EXCEPT ![p] = <<>>]
        /\ IF Len(recs) = 0
           THEN Return(p, <<>>, <<>>)
           ELSE /\ pc' = [pc EXCEPT ![p] = SetBranch(recs[1])]
                /\ UNCHANGED <<result, err>>
        /\ UNCHANGED <<store, nextId, active, calls, currentRecord,
                       recordsToDelete, delIdx, createdRecords, deletedRecords>>

SetRecords(p) == SetRecordsIn(p, ZoneInputs, SeqsUpTo(SetCandidates, MaxBatch))

\* lines 103-108
SetAdd(p) ==
    /\ p \in active
    /\ pc[p] = "set_add"
    /\ \E ok \in BOOLEAN :
        LET record == records[p][idx[p]]
            r == ClientAddRecord(nextId, record.Type, record.Name, record.Value,
                                 record.TTL)
        IN  /\ Log(p, Call("create", zone[p], "", record.Type, record.Name,
                           record.Value, record.TTL, idx[p], ok,
                           IF ok THEN <<r>> ELSE <<>>))
            /\ IF ~ok
               THEN /\ AddFailed(p)
                    /\ UNCHANGED <<store, nextId, updatedRecords, idx>>
               ELSE /\ store' = StoreAdd(store, r)
                    /\ nextId' = nextId + 1
                    /\ SetContinue(p, r)
    /\ UNCHANGED <<active, op, zone, zoneIn, records, storeAtCall, currentRecord,
                   recordsToDelete, delIdx, createdRecords, deletedRecords>>

\* lines 112-114
UpdateFailed(p) == Fail(p, Wrap("failed to update record", RemoteError))

\* lines 110-115
SetUpdate(p) ==
    /\ p \in active
    /\ pc[p] = "set_update"
    /\ LET record == records[p][idx[p]]
       IN \E ok \in Outcomes(record.ID) :
            LET r == ClientUpdateRecord(store, record.ID, record.Name,
                                        record.Value, record.TTL)
            IN  /\ Log(p, Call("update", zone[p], record.ID, "", record.Name,
                               record.Value, record.TTL, idx[p], ok,
                               IF ok THEN <<r>> ELSE <<>>))
                /\ IF ~ok
                   THEN /\ UpdateFailed(p)
                        /\ UNCHANGED <<store, updatedRecords, idx>>
                   ELSE /\ store' = StoreUpdate(store, r)
                        /\ SetContinue(p, r)
    /\ UNCHANGED <<nextId, active, op, zone, zoneIn, records, storeAtCall, currentRecord,
                   recordsToDelete, delIdx, createdRecords, deletedRecords>>

(***************************************************************************)
(* DeleteRecords, lines 122-135                                            *)
(***************************************************************************)
\* lines 122-127
DeleteRecordsIn(p, Z, B) ==
    /\ Idle(p)
    /\ \E z \in Z, recs \in B :
        /\ Enter(p, "Delete", z, recs)
        /\ deletedRecords' = [deletedRecords EXCEPT ![p] = <<>>]
        /\ IF Len(recs) = 0
           THEN Return(p, <<>>, <<>>)
           ELSE /\ pc' = [pc EXCEPT ![p] = "delete"]
                /\ UNCHANGED <<result, err>>
        /\ UNCHANGED <<store, nextId, active, calls, currentRecord,
                       recordsToDelete, delIdx, createdRecords, updatedRecords>>

DeleteRecords(p) == DeleteRecordsIn(p, ZoneInputs, SeqsUpTo(DeleteCandidates, MaxBatch))

\* an error returned beside the records deleted so far
DeleteFailedPartial(p) ==
    Return(p, deletedRecords[p], <<Wrap("failed to delete record", RemoteError)>>)

\* lines 129-131
DeleteFailed(p) == Fail(p, Wrap("failed to delete record", RemoteError))

\* lines 132-134: the record joins the result; next record, or return
DeleteContinue(p, r) ==
    /\ deletedRecords' = [deletedRecords EXCEPT ![p] = Append(@, r)]
    /\ idx' = [idx EXCEPT ![p] = @ + 1]
    /\ IF idx[p] = Len(records[p])
       THEN Return(p, Append(deletedRecords[p], r), <<>>)
       ELSE UNCHANGED <<pc, result, err>>

\* lines 127-133
DeleteRecord(p) ==
    /\ p \in active
    /\ pc[p] = "delete"
    /\ LET id == DeleteKey(records[p][idx[p]])
       IN \E ok \in Outcomes(id) :
            /\ Log(p, Call("delete", zone[p], id, "", "", "", 0, idx[p], ok,
                           IF ok THEN <<ClientDeleteRecord(store, id)>> ELSE <<>>))
            /\ IF ~ok
               THEN /\ DeleteFailed(p)
                    /\ UNCHANGED <<store, deletedRecords, idx>>
               ELSE /\ store' = StoreDelete(store, id)
                    /\ DeleteContinue(p, ClientDeleteRecord(store, id))
    /\ UNCHANGED <<nextId, active, op, zone, zoneIn, records, storeAtCall, currentRecord,
                   recordsToDelete, delIdx, createdRecords, updatedRecords>>

Next ==
    \E p \in Procs :
        \/ GetRecords(p)
        \/ AppendRecords(p)
        \/ AppendList(p)
        \/ AppendDeleteStale(p)
        \/ AppendUpdate(p)
        \/ AppendAdd(p)
        \/ SetRecords(p)
        \/ SetAdd(p)
        \/ SetUpdate(p)
        \/ DeleteRecords(p)
        \/ DeleteRecord(p)

Spec == Init /\ [][Next]_vars

(***************************************************************************)
(* One caller, passing any of the wider zone strings.                      *)
(***************************************************************************)
InitZone == Start(ZoneStores, {"c1"})

NextZone ==
    \E p \in Procs :
        \/ GetRecordsIn(p, WideZoneInputs)
        \/ AppendRecordsIn(p, WideZoneInputs, SeqsUpTo(AppendCandidates, MaxBatch))
        \/ AppendList(p)
        \/ AppendDeleteStale(p)
        \/ AppendUpdate(p)
        \/ AppendAdd(p)
        \/ SetRecordsIn(p, WideZoneInputs, SeqsUpTo(SetCandidates, MaxBatch))
        \/ SetAdd(p)
        \/ SetUpdate(p)
        \/ DeleteRecordsIn(p, WideZoneInputs, SeqsUpTo(DeleteCandidates, MaxBatch))
        \/ DeleteRecord(p)

SpecZone == InitZone /\ [][NextZone]_vars

(***************************************************************************)
(* Concurrent callers: AppendRecords called by two callers at once, on the *)
(* same Provider and zone, and by a third once both have returned. Each    *)
(* remote call is one step, so the calls of the two interleave.            *)
(***************************************************************************)
InitConc == Start(RaceStores, Procs)

NextConc ==
    \E p \in Procs :
        \/ AppendRecordsIn(p, {ZoneName}, SeqsUpTo(RaceCandidates, MaxRaceBatch))
        \/ AppendList(p)
        \/ AppendDeleteStale(p)
        \/ AppendUpdate(p)
        \/ AppendAdd(p)

SpecConc == InitConc /\ [][NextConc]_vars

(***************************************************************************)
(* The call log, read per batch entry                                      *)
(***************************************************************************)
AcmeNamed(record) == HasPrefix(record.Name, "_acme-challenge.")

SameTypeName(e, record) == e.Type = record.Type /\ e.Name = record.Name

MatchesIn(listing, record) == SelectSeq(listing, LAMBDA e : SameTypeName(e, record))

CallsFor(p, i) == SelectSeq(calls[p], LAMBDA c : c.cand = i)

OpsOf(cs, o) == SelectSeq(cs, LAMBDA c : c.op = o)

AllOk(cs) == \A k \in 1..Len(cs) : cs[k].ok

\* the loop has moved past batch entry i
Passed(p, i) == i < idx[p]

\* the call ended with an error while on batch entry i
FailedAt(p, i) == pc[p] = "done" /\ err[p] # <<>> /\ idx[p] = i

\* the operation is through with batch entry i, one way or the other
Ended(p, i) == Passed(p, i) \/ FailedAt(p, i)

Succeeded(p, o) == op[p] = o /\ pc[p] = "done" /\ err[p] = <<>>

\* the listing the list call of batch entry i returned
ListedFor(p, i) ==
    /\ Len(OpsOf(CallsFor(p, i), "list")) >= 1
    /\ OpsOf(CallsFor(p, i), "list")[1].ok

ListingFor(p, i) == OpsOf(CallsFor(p, i), "list")[1].ret

CarriesUpdate(c, id, record) ==
    /\ c.id = id
    /\ c.name = record.Name
    /\ c.value = record.Value
    /\ c.ttl = record.TTL

CarriesCreate(c, record) ==
    /\ c.type = record.Type
    /\ c.name = record.Name
    /\ c.value = record.Value
    /\ c.ttl = record.TTL

(***************************************************************************)
(* C1, as amended: for an Append candidate named `_acme-challenge.`...     *)
(* whose listing holds N >= 1 records of its (type, name): no create call  *)
(* is made for it; every update call made for it is addressed to the first *)
(* such record in listing order and carries the candidate's name, value    *)
(* and TTL; the delete calls made for it are addressed to the remaining    *)
(* matching records, one each; and once Append is through with the         *)
(* candidate, provided no delete call for a stale duplicate failed, the    *)
(* update calls are exactly one and the delete calls exactly N-1.          *)
(***************************************************************************)
C1_AcmeUpdateInPlace ==
    \A p \in active : op[p] = "Append" =>
        \A i \in 1..Len(records[p]) :
            LET record == records[p][i]
                cs == CallsFor(p, i)
                M == MatchesIn(ListingFor(p, i), record)
                ups == OpsOf(cs, "update")
                dels == OpsOf(cs, "delete")
            IN  (AcmeNamed(record) /\ ListedFor(p, i) /\ Len(M) >= 1) =>
                    /\ Len(OpsOf(cs, "create")) = 0
                    /\ Len(ups) <= 1
                    /\ \A k \in 1..Len(ups) : CarriesUpdate(ups[k], M[1].ID, record)
                    /\ Len(dels) <= Len(M) - 1
                    /\ \A k \in 1..Len(dels) : dels[k].id = M[k + 1].ID
                    /\ (Ended(p, i) /\ AllOk(dels)) =>
                            Len(ups) = 1 /\ Len(dels) = Len(M) - 1

(***************************************************************************)
(* C1, as stated: once Append is through with such a candidate it has      *)
(* issued exactly one update call, on the first matching record, exactly   *)
(* N-1 delete calls, on the remaining ones, and no create call.            *)
(***************************************************************************)
C1_Original ==
    \A p \in active : op[p] = "Append" =>
        \A i \in 1..Len(records[p]) :
            LET record == records[p][i]
                cs == CallsFor(p, i)
                M == MatchesIn(ListingFor(p, i), record)
                ups == OpsOf(cs, "update")
                dels == OpsOf(cs, "delete")
            IN  (AcmeNamed(record) /\ ListedFor(p, i) /\ Len(M) >= 1
                    /\ Ended(p, i)) =>
                    /\ Len(OpsOf(cs, "create")) = 0
                    /\ Len(ups) = 1
                    /\ CarriesUpdate(ups[1], M[1].ID, record)
                    /\ Len(dels) = Len(M) - 1
                    /\ \A k \in 1..Len(dels) : dels[k].id = M[k + 1].ID

\* a candidate that found three matching records and was reconciled
C1_Witness ==
    \E p \in active : op[p] = "Append" /\
        \E i \in 1..Len(records[p]) :
            /\ AcmeNamed(records[p][i])
            /\ Passed(p, i)
            /\ ListedFor(p, i)
            /\ Len(MatchesIn(ListingFor(p, i), records[p][i])) >= 3
            /\ Len(OpsOf(CallsFor(p, i), "delete")) = 2
            /\ Len(OpsOf(CallsFor(p, i), "update")) = 1

(***************************************************************************)
(* C2: for an Append candidate named `_acme-challenge.`... whose listing   *)
(* holds no record of its (type, name): no update or delete call is made   *)
(* for it, and once Append is through with it exactly one create call has  *)
(* been made for it, with the candidate's type, name, value and TTL.       *)
(***************************************************************************)
C2_AcmeCreateWhenAbsent ==
    \A p \in active : op[p] = "Append" =>
        \A i \in 1..Len(records[p]) :
            LET record == records[p][i]
                cs == CallsFor(p, i)
                adds == OpsOf(cs, "create")
            IN  (AcmeNamed(record) /\ ListedFor(p, i)
                    /\ Len(MatchesIn(ListingFor(p, i), record)) = 0) =>
                    /\ Len(OpsOf(cs, "update")) = 0
                    /\ Len(OpsOf(cs, "delete")) = 0
                    /\ Len(adds) <= 1
                    /\ \A k \in 1..Len(adds) : CarriesCreate(adds[k], record)
                    /\ Ended(p, i) => Len(adds) = 1

\* a candidate created although the zone listed other records
C2_Witness ==
    \E p \in active : op[p] = "Append" /\
        \E i \in 1..Len(records[p]) :
            /\ AcmeNamed(records[p][i])
            /\ Passed(p, i)
            /\ ListedFor(p, i)
            /\ Len(ListingFor(p, i)) >= 2
            /\ Len(MatchesIn(ListingFor(p, i), records[p][i])) = 0
            /\ Len(OpsOf(CallsFor(p, i), "create")) = 1

(***************************************************************************)
(* C3, as amended: for an Append candidate whose name does not start with  *)
(* `_acme-challenge.`: no list, update or delete call is made for it,      *)
(* whatever the zone holds; exactly one create call has been made for it   *)
(* once Append is through with it; and when that create call succeeds (the *)
(* loop moves past the candidate), the result has gained exactly one       *)
(* record, at the candidate's position, the one the create call returned,  *)
(* under an identifier no record of the zone had.                          *)
(***************************************************************************)
C3_NonAcmeCreates ==
    \A p \in active : op[p] = "Append" =>
        \A i \in 1..Len(records[p]) :
            LET record == records[p][i]
                cs == CallsFor(p, i)
                adds == OpsOf(cs, "create")
            IN  ~AcmeNamed(record) =>
                    /\ Len(OpsOf(cs, "list")) = 0
                    /\ Len(OpsOf(cs, "update")) = 0
                    /\ Len(OpsOf(cs, "delete")) = 0
                    /\ Len(adds) <= 1
                    /\ \A k \in 1..Len(adds) : CarriesCreate(adds[k], record)
                    /\ Ended(p, i) => Len(adds) = 1
                    /\ Passed(p, i) =>
                        /\ adds[1].ok
                        /\ Len(createdRecords[p]) = idx[p] - 1
                        /\ createdRecords[p][i] = adds[1].ret[1]
                        /\ ~HasId(storeAtCall[p], createdRecords[p][i].ID)
                        /\ \A j \in 1..Len(createdRecords[p]) :
                            j # i => createdRecords[p][j].ID # createdRecords[p][i].ID

(***************************************************************************)
(* C3, as stated: once Append is through with such a candidate it has      *)
(* issued exactly one create call and no list, update or delete call for   *)
(* it, and the result has gained the record the create call returned.      *)
(***************************************************************************)
C3_Original ==
    \A p \in active : op[p] = "Append" =>
        \A i \in 1..Len(records[p]) :
            LET record == records[p][i]
                cs == CallsFor(p, i)
                adds == OpsOf(cs, "create")
            IN  (~AcmeNamed(record) /\ Ended(p, i)) =>
                    /\ Len(OpsOf(cs, "list")) = 0
                    /\ Len(OpsOf(cs, "update")) = 0
                    /\ Len(OpsOf(cs, "delete")) = 0
                    /\ Len(adds) = 1
                    /\ CarriesCreate(adds[1], record)
                    /\ adds[1].ok
                    /\ Len(createdRecords[p]) >= i
                    /\ createdRecords[p][i] = adds[1].ret[1]

\* the bare label and a name with the label further in, both created beside
\* a record of the same type and name
C3_Witness ==
    \E p \in active :
        /\ Succeeded(p, "Append")
        /\ Len(records[p]) = 2
        /\ records[p][1].Name = BareName
        /\ records[p][2].Name = InnerName
        /\ Len(MatchesIn(storeAtCall[p], records[p][1])) >= 1
        /\ Len(result[p]) = 2
        /\ Len(OpsOf(calls[p], "create")) = 2

(***************************************************************************)
(* C4: with a single caller, after Append returns successfully the zone    *)
(* holds exactly one record of the (type, name) of every candidate named   *)
(* `_acme-challenge.`..., however many it held before the call.            *)
(***************************************************************************)
C4_AcmeConverges ==
    \A p \in active : Succeeded(p, "Append") =>
        \A i \in 1..Len(records[p]) :
            AcmeNamed(records[p][i]) =>
                Len(MatchesIn(store, records[p][i])) = 1

\* a successful Append on a zone that held three duplicates
C4_Witness ==
    \E p \in active :
        /\ Succeeded(p, "Append")
        /\ \E i \in 1..Len(records[p]) :
            /\ AcmeNamed(records[p][i])
            /\ Len(MatchesIn(storeAtCall[p], records[p][i])) >= 3
            /\ Len(MatchesIn(store, records[p][i])) = 1

(***************************************************************************)
(* C5: AppendRecords adds the given records and returns the records that   *)
(* were added: with a single caller, after a successful Append the zone    *)
(* holds, for every candidate, a record of its type, name and value, and   *)
(* holds every returned record under the identifier and with the value it  *)
(* was returned with.                                                      *)
(***************************************************************************)
C5_AppendAddsRecords ==
    \A p \in active : Succeeded(p, "Append") =>
        /\ \A i \in 1..Len(records[p]) :
            \E k \in 1..Len(store) :
                /\ store[k].Type = records[p][i].Type
                /\ store[k].Name = records[p][i].Name
                /\ store[k].Value = records[p][i].Value
        /\ \A j \in 1..Len(result[p]) :
            \E k \in 1..Len(store) :
                /\ store[k].ID = result[p][j].ID
                /\ store[k].Value = result[p][j].Value

(***************************************************************************)
(* C6: if the listing call made for an ACME candidate fails, it is the     *)
(* last remote call of the Append call (no delete, update or create for    *)
(* the candidate, nothing for the candidates after it), and the call has   *)
(* returned a nil result and a non-nil error.                              *)
(***************************************************************************)
C6_ListFailureAborts ==
    \A p \in active : op[p] = "Append" =>
        \A k \in 1..Len(calls[p]) :
            (calls[p][k].op = "list" /\ ~calls[p][k].ok) =>
                /\ k = Len(calls[p])
                /\ pc[p] = "done"
                /\ result[p] = <<>>
                /\ err[p] # <<>>

\* the listing of the first candidate failed and the call ended there, a
\* candidate that needs no listing still waiting behind it
C6_Witness ==
    \E p \in active :
        /\ op[p] = "Append"
        /\ pc[p] = "done"
        /\ Len(records[p]) = 2
        /\ ~AcmeNamed(records[p][2])
        /\ Len(calls[p]) = 1
        /\ calls[p][1].op = "list"
        /\ ~calls[p][1].ok
        /\ result[p] = <<>>
        /\ err[p] # <<>>

(***************************************************************************)
(* C7: in Append, Set and Delete no remote call follows a failed one (no   *)
(* retry, no later batch entry, no compensating call); once a remote call  *)
(* has failed the call has returned nil records and a non-nil error; and   *)
(* the zone is the zone at the call with every successful mutation of the  *)
(* call applied.                                                           *)
(***************************************************************************)
ApplyCall(st, c) ==
    IF ~c.ok THEN st
    ELSE IF c.op = "create" THEN StoreAdd(st, c.ret[1])
    ELSE IF c.op = "update" THEN StoreUpdate(st, c.ret[1])
    ELSE IF c.op = "delete" THEN StoreDelete(st, c.id)
    ELSE st

RECURSIVE Replay(_, _)
Replay(st, cs) ==
    IF cs = <<>> THEN st ELSE Replay(ApplyCall(st, Head(cs)), Tail(cs))

C7_FirstFailureEndsCall ==
    \A p \in active : op[p] \in {"Append", "Set", "Delete"} =>
        /\ \A k \in 1..(Len(calls[p]) - 1) : calls[p][k].ok
        /\ (Len(calls[p]) >= 1 /\ ~calls[p][Len(calls[p])].ok) =>
                pc[p] = "done" /\ result[p] = <<>> /\ err[p] # <<>>
        /\ store = Replay(storeAtCall[p], calls[p])

\* a Delete whose second call failed after the first had removed a record
C7_Witness ==
    \E p \in active :
        /\ op[p] = "Delete"
        /\ pc[p] = "done"
        /\ err[p] # <<>>
        /\ Len(calls[p]) = 2
        /\ Len(records[p]) >= 2
        /\ Len(deletedRecords[p]) = 1
        /\ Len(store) = Len(storeAtCall[p]) - 1

(***************************************************************************)
(* C8: on success Append returns one record per candidate, in candidate    *)
(* order: the i-th is the record the remote returned for the i-th          *)
(* candidate's update call when the candidate is an ACME candidate whose   *)
(* listing held a match, and for its create call otherwise; no record      *)
(* returned by a stale-duplicate delete call is in the result.             *)
(***************************************************************************)
C8_ResultInCandidateOrder ==
    \A p \in active : Succeeded(p, "Append") =>
        /\ Len(result[p]) = Len(records[p])
        /\ \A i \in 1..Len(records[p]) :
            LET record == records[p][i]
                cs == CallsFor(p, i)
                w == SelectSeq(cs, LAMBDA c : c.op \in {"create", "update"})
                reconciled == /\ AcmeNamed(record)
                              /\ ListedFor(p, i)
                              /\ Len(MatchesIn(ListingFor(p, i), record)) >= 1
            IN  /\ Len(w) = 1
                /\ w[1].ok
                /\ w[1].op = (IF reconciled THEN "update" ELSE "create")
                /\ result[p][i] = w[1].ret[1]
        /\ \A k \in 1..Len(calls[p]) :
            calls[p][k].op = "delete" =>
                \A i \in 1..Len(result[p]) : result[p][i] # calls[p][k].ret[1]

\* an update with a stale duplicate deleted, then a create
C8_Witness ==
    \E p \in active :
        /\ Succeeded(p, "Append")
        /\ Len(records[p]) = 2
        /\ Len(OpsOf(CallsFor(p, 1), "delete")) >= 1
        /\ Len(OpsOf(CallsFor(p, 1), "update")) = 1
        /\ Len(OpsOf(CallsFor(p, 2), "create")) = 1
        /\ result[p][1].ID # result[p][2].ID

(***************************************************************************)
(* C9: Set issues no list and no delete call; for a batch record it makes  *)
(* one call at most, and exactly one once it is through with the record:   *)
(* a create call with the record's type, name, value and TTL when the      *)
(* record's identifier is empty, an update call keyed by that identifier   *)
(* otherwise; names under `_acme-challenge.` are treated no differently.   *)
(***************************************************************************)
C9_SetCreatesOrUpdates ==
    \A p \in active : op[p] = "Set" =>
        /\ \A k \in 1..Len(calls[p]) : calls[p][k].op \in {"create", "update"}
        /\ \A i \in 1..Len(records[p]) :
            LET record == records[p][i]
                cs == CallsFor(p, i)
            IN  /\ Len(cs) <= 1
                /\ Ended(p, i) => Len(cs) = 1
                /\ \A k \in 1..Len(cs) :
                    IF record.ID = ""
                    THEN cs[k].op = "create" /\ CarriesCreate(cs[k], record)
                    ELSE cs[k].op = "update" /\ CarriesUpdate(cs[k], record.ID, record)

\* an identifier-less `_acme-challenge.` record created beside the record of
\* the same type and name, and a record updated by its identifier
C9_Witness ==
    \E p \in active :
        /\ Succeeded(p, "Set")
        /\ Len(records[p]) = 2
        /\ records[p][1].ID = ""
        /\ AcmeNamed(records[p][1])
        /\ Len(MatchesIn(storeAtCall[p], records[p][1])) = 1
        /\ records[p][2].ID # ""
        /\ calls[p][1].op = "create"
        /\ calls[p][2].op = "update"
        /\ Len(MatchesIn(store, records[p][1])) >= 2

(***************************************************************************)
(* C10: Delete issues delete calls only, in batch order: the k-th call is  *)
(* the one for the k-th batch record and is keyed by that record's         *)
(* identifier, one call for every record Delete is through with; on        *)
(* success the result holds, in the same order, the record the remote      *)
(* returned for each batch entry.                                          *)
(***************************************************************************)
C10_DeleteByIdentifier ==
    \A p \in active : op[p] = "Delete" =>
        /\ Len(calls[p]) <= Len(records[p])
        /\ \A k \in 1..Len(calls[p]) :
            /\ calls[p][k].op = "delete"
            /\ calls[p][k].cand = k
            /\ calls[p][k].id = records[p][k].ID
        /\ \A i \in 1..Len(records[p]) : Ended(p, i) => Len(CallsFor(p, i)) = 1
        /\ Succeeded(p, "Delete") =>
            /\ Len(result[p]) = Len(records[p])
            /\ \A i \in 1..Len(records[p]) : result[p][i] = calls[p][i].ret[1]

\* two records deleted, the higher identifier first
C10_Witness ==
    \E p \in active :
        /\ Succeeded(p, "Delete")
        /\ Len(records[p]) = 2
        /\ records[p][1].ID = "2"
        /\ records[p][2].ID = "1"
        /\ Len(result[p]) = 2
        /\ Len(store) = Len(storeAtCall[p]) - 2

(***************************************************************************)
(* C11: a call that is passed the zone name followed by a trailing dot     *)
(* behaves as the call that is passed the zone name itself. An operation   *)
(* keeps nothing of the string it was passed but its local zone, and the   *)
(* remote calls take their zone argument from that local; so the two calls *)
(* issue the same remote calls, return the same result and leave the same  *)
(* zone when, for either string, the local zone is the zone name without   *)
(* the dot and every remote call, the nested ones of Append included, is   *)
(* given that name.                                                        *)
(***************************************************************************)
C11_TrailingDotEquivalent ==
    \A p \in active :
        (pc[p] # "idle" /\ zoneIn[p] \in {ZoneName, ZoneName \o "."}) =>
            /\ zone[p] = ZoneName
            /\ \A k \in 1..Len(calls[p]) : calls[p][k].zone = ZoneName

\* an Append that was passed the dotted zone name and has listed, deleted a
\* stale duplicate (the nested calls) and updated
C11_Witness ==
    \E p \in active :
        /\ Succeeded(p, "Append")
        /\ zoneIn[p] = ZoneName \o "."
        /\ Len(OpsOf(calls[p], "list")) >= 1
        /\ Len(OpsOf(calls[p], "delete")) >= 1
        /\ Len(OpsOf(calls[p], "update")) >= 1
        /\ \A k \in 1..Len(calls[p]) : calls[p][k].zone = ZoneName

(***************************************************************************)
(* C12: two Append calls that run at once for the same `_acme-challenge.`  *)
(* (type, name), each of which listed the zone while it held no record of  *)
(* that (type, name), issue no update and no delete for the candidate but  *)
(* a create each; the two records created have different identifiers and   *)
(* the same (type, name), and both stay in the zone until a call deletes   *)
(* one. An Append that runs alone afterwards and succeeds leaves exactly    *)
(* one record of the (type, name) of each of its `_acme-challenge.`        *)
(* candidates.                                                             *)
(***************************************************************************)
DeletedBy(p, id) ==
    \E k \in 1..Len(calls[p]) :
        calls[p][k].op = "delete" /\ calls[p][k].ok /\ calls[p][k].id = id

SawNoMatch(p, i) ==
    /\ AcmeNamed(records[p][i])
    /\ ListedFor(p, i)
    /\ MatchesIn(ListingFor(p, i), records[p][i]) = <<>>

CreatedFor(p, i) ==
    /\ Len(OpsOf(CallsFor(p, i), "create")) = 1
    /\ OpsOf(CallsFor(p, i), "create")[1].ok

CreatedRecordOf(p, i) == OpsOf(CallsFor(p, i), "create")[1].ret[1]

C12_RaceThenConverge ==
    /\ \A p \in active \ Solo, q \in active \ Solo : p # q =>
        \A i \in 1..Len(records[p]), j \in 1..Len(records[q]) :
            (SawNoMatch(p, i) /\ SawNoMatch(q, j)
                /\ SameTypeName(records[p][i], records[q][j])) =>
                /\ Len(OpsOf(CallsFor(p, i), "update")) = 0
                /\ Len(OpsOf(CallsFor(p, i), "delete")) = 0
                /\ Passed(p, i) => CreatedFor(p, i)
                /\ (CreatedFor(p, i) /\ CreatedFor(q, j)) =>
                    LET a == CreatedRecordOf(p, i)
                        b == CreatedRecordOf(q, j)
                    IN  /\ a.ID # b.ID
                        /\ SameTypeName(a, b)
                        /\ (\A c \in active : ~DeletedBy(c, a.ID) /\ ~DeletedBy(c, b.ID)) =>
                            /\ HasId(store, a.ID)
                            /\ HasId(store, b.ID)
                            /\ Len(MatchesIn(store, records[p][i])) >= 2
    /\ \A s \in active \cap Solo : Succeeded(s, "Append") =>
        \A i \in 1..Len(records[s]) :
            AcmeNamed(records[s][i]) => Len(MatchesIn(store, records[s][i])) = 1

\* both concurrent calls listed before either created, both created, and
\* the Append that ran alone afterwards found the two records and left one
C12_Witness ==
    /\ active = Procs
    /\ Len(records["c1"]) = 1 /\ Len(records["c2"]) = 1
    /\ SawNoMatch("c1", 1) /\ CreatedFor("c1", 1)
    /\ SawNoMatch("c2", 1) /\ CreatedFor("c2", 1)
    /\ SameTypeName(records["c1"][1], records["c2"][1])
    /\ Succeeded("c3", "Append")
    /\ Len(records["c3"]) = 1
    /\ SameTypeName(records["c3"][1], records["c1"][1])
    /\ Len(MatchesIn(storeAtCall["c3"], records["c3"][1])) = 2
    /\ Len(MatchesIn(store, records["c3"][1])) = 1

(***************************************************************************)
(* C13: every error an operation returns is a wrapped error: it starts     *)
(* with the taxonomy's label of the sub-operation that failed (the last    *)
(* remote call of the operation), followed by ": ", and ends with the      *)
(* message of the remote failure.                                          *)
(***************************************************************************)
LabelOf(o, c) ==
    IF c.op = "list" THEN "failed to get existing records"
    ELSE IF c.op = "create" THEN "failed to add record"
    ELSE IF c.op = "update"
         THEN (IF o = "Append" THEN "failed to update ACME challenge record"
               ELSE "failed to update record")
    ELSE IF o = "Append" THEN "failed to delete stale ACME challenge records"
    ELSE "failed to delete record"

WrappedAs(msg, label) ==
    /\ HasPrefix(msg, label \o ": ")
    /\ HasSuffix(msg, RemoteError)

ErrorWrapped(p) ==
    (pc[p] = "done" /\ err[p] # <<>>) =>
        /\ Len(calls[p]) >= 1
        /\ ~calls[p][Len(calls[p])].ok
        /\ WrappedAs(err[p][1], LabelOf(op[p], calls[p][Len(calls[p])]))

C13_ErrorsWrapped == \A p \in active : ErrorWrapped(p)

\* the same, for the operations other than Get
C13_ErrorsWrappedButGet == \A p \in active : op[p] # "Get" => ErrorWrapped(p)

(***************************************************************************)
(* C14: the remote calls Append makes for one `_acme-challenge.` candidate *)
(* are ordered: the listing comes first and is the only one; an update is  *)
(* the last call for the candidate, and every delete call before it has    *)
(* completed successfully. When the listing holds two records of the       *)
(* candidate's (type, name), the calls are, in this order, the listing,    *)
(* the delete of the second and the update of the first with the           *)
(* candidate's value (a prefix of that sequence while the candidate is     *)
(* being handled or when a call failed), and the entry returned for the    *)
(* candidate is the first record with the candidate's name, value and TTL. *)
(***************************************************************************)
ReconcileOrdered(cs) ==
    /\ Len(cs) >= 1 => cs[1].op = "list"
    /\ \A k \in 2..Len(cs) : cs[k].op # "list"
    /\ \A k \in 1..Len(cs) : cs[k].op = "update" =>
            /\ k = Len(cs)
            /\ \A j \in 2..(k - 1) : cs[j].op = "delete" /\ cs[j].ok

\* the calls expected for a candidate whose listing holds M[1] and M[2]
IsListDeleteUpdate(cs, M, record) ==
    /\ Len(cs) <= 3
    /\ Len(cs) >= 1 => cs[1].op = "list"
    /\ Len(cs) >= 2 => cs[2].op = "delete" /\ cs[2].id = M[2].ID
    /\ Len(cs) >= 3 => cs[3].op = "update" /\ CarriesUpdate(cs[3], M[1].ID, record)

Updated(e, record) ==
    [e EXCEPT !.Name = record.Name, !.Value = record.Value, !.TTL = record.TTL]

C14_ReconcileOrder ==
    \A p \in active : op[p] = "Append" =>
        \A i \in 1..Len(records[p]) :
            LET record == records[p][i]
                cs == CallsFor(p, i)
                M == MatchesIn(ListingFor(p, i), record)
            IN  AcmeNamed(record) =>
                /\ ReconcileOrdered(cs)
                /\ (ListedFor(p, i) /\ Len(M) = 2) =>
                    /\ IsListDeleteUpdate(cs, M, record)
                    /\ Passed(p, i) =>
                        /\ Len(cs) = 3
                        /\ AllOk(cs)
                        /\ createdRecords[p][i] = Updated(M[1], record)
                        /\ (Len(records[p]) = 1 /\ pc[p] = "done") =>
                                result[p] = <<Updated(M[1], record)>>

\* the zone held id 1 and id 2, listed in that order; the calls were list,
\* delete(id 2), update(id 1, new) and the result is id 1 with the new value
C14_Witness ==
    \E p \in active :
        /\ Succeeded(p, "Append")
        /\ Len(records[p]) = 1
        /\ AcmeNamed(records[p][1])
        /\ Len(storeAtCall[p]) = 2
        /\ storeAtCall[p][1].ID = "1" /\ storeAtCall[p][2].ID = "2"
        /\ Len(MatchesIn(storeAtCall[p], records[p][1])) = 2
        /\ Len(calls[p]) = 3
        /\ calls[p][1].op = "list"
        /\ calls[p][2].op = "delete" /\ calls[p][2].id = "2"
        /\ calls[p][3].op = "update" /\ calls[p][3].id = "1"
        /\ calls[p][3].value = records[p][1].Value
        /\ result[p] = <<Rec("1", records[p][1].Type, records[p][1].Name,
                             records[p][1].Value, records[p][1].TTL)>>
        /\ store = result[p]

(***************************************************************************)
(* C15: when a delete call for a stale duplicate fails during Append, the  *)
(* call has returned nil and an error; the failed delete is the last       *)
(* remote call and no update or create call was issued for the candidate;  *)
(* the duplicates deleted before the failure are not in the zone; and the  *)
(* first matching record and the duplicates the loop had not reached are   *)
(* in the zone as they were listed.                                        *)
(***************************************************************************)
Holds(st, e) == \E n \in 1..Len(st) : st[n] = e

StaleDeleteFailedFor(p, i) ==
    \E k \in 1..Len(CallsFor(p, i)) :
        CallsFor(p, i)[k].op = "delete" /\ ~CallsFor(p, i)[k].ok

C15_StaleDeleteFailure ==
    \A p \in active : op[p] = "Append" =>
        \A i \in 1..Len(records[p]) :
            LET cs == CallsFor(p, i)
                dels == OpsOf(cs, "delete")
                M == MatchesIn(ListingFor(p, i), records[p][i])
            IN  StaleDeleteFailedFor(p, i) =>
                /\ pc[p] = "done"
                /\ result[p] = <<>>
                /\ err[p] # <<>>
                /\ idx[p] = i
                /\ calls[p][Len(calls[p])] = dels[Len(dels)]
                /\ \A k \in 1..(Len(dels) - 1) : dels[k].ok
                /\ Len(OpsOf(cs, "update")) = 0
                /\ Len(OpsOf(cs, "create")) = 0
                /\ \A k \in 1..(Len(dels) - 1) : ~HasId(store, dels[k].id)
                /\ Holds(store, M[1])
                /\ \A j \in (Len(dels) + 2)..Len(M) : Holds(store, M[j])

\* three matching records: the first stale duplicate was deleted, the delete
\* of the second failed
C15_Witness ==
    \E p \in active : op[p] = "Append" /\ Len(records[p]) >= 1 /\
        LET dels == OpsOf(CallsFor(p, 1), "delete")
        IN  /\ Len(MatchesIn(storeAtCall[p], records[p][1])) = 3
            /\ Len(dels) = 2
            /\ dels[1].ok
            /\ ~dels[2].ok
            /\ pc[p] = "done"
            /\ Len(MatchesIn(store, records[p][1])) = 2
            /\ store[1] = storeAtCall[p][1]

(***************************************************************************)
(* C16: a record the zone held when Append was called, whose (type, name)  *)
(* is not the (type, name) of any `_acme-challenge.` candidate of the      *)
(* batch, is never the target of a delete or update call of that Append,   *)
(* and is in the zone with its identifier, value and TTL at every point of *)
(* the call and after it, whether the call succeeds or fails.              *)
(***************************************************************************)
OutsideBatch(p, e) ==
    \A i \in 1..Len(records[p]) :
        AcmeNamed(records[p][i]) => ~SameTypeName(e, records[p][i])

C16_AppendFrame ==
    \A p \in active : op[p] = "Append" =>
        \A n \in 1..Len(storeAtCall[p]) :
            OutsideBatch(p, storeAtCall[p][n]) =>
                /\ Holds(store, storeAtCall[p][n])
                /\ \A k \in 1..Len(calls[p]) :
                        calls[p][k].op \in {"delete", "update"} =>
                            calls[p][k].id # storeAtCall[p][n].ID

\* two records share a name that is no ACME name; the batch held a candidate
\* of that name and an ACME candidate that was reconciled by an update
C16_Witness ==
    \E p \in active :
        /\ op[p] = "Append"
        /\ pc[p] = "done"
        /\ \E n1, n2 \in 1..Len(storeAtCall[p]) :
            /\ n1 # n2
            /\ SameTypeName(storeAtCall[p][n1], storeAtCall[p][n2])
            /\ ~AcmeNamed(storeAtCall[p][n1])
            /\ \E i \in 1..Len(records[p]) :
                    SameTypeName(storeAtCall[p][n1], records[p][i])
            /\ Holds(store, storeAtCall[p][n1])
            /\ Holds(store, storeAtCall[p][n2])
        /\ \E k \in 1..Len(calls[p]) : calls[p][k].op = "update" /\ calls[p][k].ok

(***************************************************************************)
(* C17: an Append candidate whose type is not TXT is created directly: the *)
(* remote calls made for it are create calls only, no list, delete or      *)
(* update, whatever its name; and once Append is past it, exactly one      *)
(* create call was made for it.                                            *)
(***************************************************************************)
C17_ReconcileTxtOnly ==
    \A p \in active : op[p] = "Append" =>
        \A i \in 1..Len(records[p]) :
            records[p][i].Type # "TXT" =>
                /\ \A k \in 1..Len(CallsFor(p, i)) : CallsFor(p, i)[k].op = "create"
                /\ Passed(p, i) => Len(CallsFor(p, i)) = 1

(***************************************************************************)
(* C18, as amended: for every zone string that ends in at most one dot,    *)
(* every remote call of the operation, the nested listing and stale-delete *)
(* calls of Append included, receives the same zone argument, the string   *)
(* without its trailing dot, which does not end in a dot. Of a string that *)
(* ends in more dots one dot is stripped when the operation is entered and *)
(* one more on the way into the nested calls of Append.                    *)
(***************************************************************************)
Nested(o, c) == o = "Append" /\ c.op \in {"list", "delete"}

C18_ZoneArgument ==
    \A p \in active : pc[p] # "idle" =>
        \A k \in 1..Len(calls[p]) :
            /\ ~HasSuffix(zoneIn[p], "..") =>
                /\ calls[p][k].zone = calls[p][1].zone
                /\ calls[p][k].zone = TrimSuffix(zoneIn[p], ".")
                /\ ~HasSuffix(calls[p][k].zone, ".")
            /\ calls[p][k].zone =
                    IF Nested(op[p], calls[p][k])
                    THEN TrimSuffix(TrimSuffix(zoneIn[p], "."), ".")
                    ELSE TrimSuffix(zoneIn[p], ".")

(***************************************************************************)
(* C18, as stated: for every zone string passed, every remote call of the  *)
(* operation receives the same zone argument, and it does not end in a dot *)
(***************************************************************************)
C18_Original ==
    \A p \in active : pc[p] # "idle" =>
        \A k \in 1..Len(calls[p]) :
            /\ calls[p][k].zone = calls[p][1].zone
            /\ ~HasSuffix(calls[p][k].zone, ".")

\* an Append that was passed the zone name with one trailing dot and made
\* nested and direct calls: list, create, list, update
C18_Witness ==
    \E p \in active :
        /\ Succeeded(p, "Append")
        /\ zoneIn[p] = ZoneName \o "."
        /\ Len(calls[p]) = 4
        /\ calls[p][1].op = "list" /\ calls[p][2].op = "create"
        /\ calls[p][3].op = "list" /\ calls[p][4].op = "update"
        /\ \A k \in 1..4 : calls[p][k].zone = ZoneName

(***************************************************************************)
(* C19: every listing Append takes for an `_acme-challenge.` candidate is  *)
(* the zone as the calls made before it in the same Append have left it.   *)
(* For a batch of two `_acme-challenge.` candidates of one (type, name) on *)
(* a zone with no record of that (type, name), the calls are list and      *)
(* create for the first, list and update for the second, the update on the *)
(* identifier the create was given (a prefix of that sequence while the    *)
(* call runs or when a call failed), never a second create; when the call  *)
(* has succeeded, the two result entries have the same identifier and the  *)
(* zone holds one record of that (type, name), with the second candidate's *)
(* value.                                                                  *)
(***************************************************************************)
FreshListings(p) ==
    \A k \in 1..Len(calls[p]) :
        (calls[p][k].op = "list" /\ calls[p][k].ok) =>
            calls[p][k].ret = Replay(storeAtCall[p], SubSeq(calls[p], 1, k - 1))

TwoOfOneName(p) ==
    /\ Len(records[p]) = 2
    /\ AcmeNamed(records[p][1])
    /\ SameTypeName(records[p][1], records[p][2])
    /\ MatchesIn(storeAtCall[p], records[p][1]) = <<>>

IsCreateThenUpdate(p) ==
    LET cs == calls[p]
    IN  /\ Len(cs) <= 4
        /\ Len(cs) >= 1 => cs[1].op = "list" /\ cs[1].cand = 1
        /\ Len(cs) >= 2 => cs[2].op = "create" /\ cs[2].cand = 1
                            /\ CarriesCreate(cs[2], records[p][1])
        /\ Len(cs) >= 3 => cs[3].op = "list" /\ cs[3].cand = 2
        /\ Len(cs) >= 4 => cs[4].op = "update" /\ cs[4].cand = 2
                            /\ CarriesUpdate(cs[4], cs[2].ret[1].ID, records[p][2])

====
